---- MODULE Spec2Model ----
(***************************************************************************)
(* Model of src/data/rocks_db.rs: the RocksDB-backed typed store of the    *)
(* light client (key router, put/get/delete, Kademlia record iterator).    *)
(*                                                                         *)
(* The storage engine is an ordered byte map per column family plus the    *)
(* default column family.  Point reads and writes of the engine are taken  *)
(* to succeed (no I/O fault); the scan may deliver an engine error item,   *)
(* which is an explicit argument of to_kad_record.                         *)
(***************************************************************************)
EXTENDS Integers, Sequences, FiniteSets, TLC

VARIABLES
    opened,     \* RocksDB::open has returned Ok
    cfs,        \* column families that exist in the database at `path`
    db,         \* namespace -> (byte key -> value bytes); namespaces are cfs and DefaultCF
    written,    \* history: Key -> what the caller last put and has not deleted since
    last,       \* the last call: its name and arguments
    result,     \* what the last call returned
    itPc,       \* position of the consumer of iter(): "none", "open", "done", "panicked"
    itSnap,     \* the database view pinned by the engine iterator when iter() was called
    itPos,      \* number of engine entries the iterator has consumed
    yielded,    \* the kad records the iterator has yielded so far
    rk1, rk2,   \* router inputs (two logical keys)
    out1, out2  \* router outputs for rk1, rk2

vars == <<opened, cfs, db, written, last, result, itPc, itSnap, itPos, yielded,
          rk1, rk2, out1, out2>>

storeVars == <<opened, cfs, db, written, last, result>>
iterVars == <<itPc, itSnap, itPos, yielded>>
routerVars == <<rk1, rk2, out1, out2>>

(***************************************************************************)
(* Bounds.                                                                 *)
(***************************************************************************)
\* entries held by the named partitions at one time
MaxEntries == 2
\* AppData app ids and block numbers given to the router range over 0..MaxAppNum
MaxAppNum == 11
\* low bytes 0..MaxLowByte (and the byte 255) make up the router's block numbers
MaxLowByte == 1
\* raw Kademlia keys given to the router have at most MaxRawLen bytes
MaxRawLen == 2

None == [tag |-> "None"]

(***************************************************************************)
(* Names defined in data/mod.rs (imported at lines 2 and 15).              *)
(***************************************************************************)
APP_DATA_CF == "app data"
BLOCK_HEADER_CF == "block header"
CONFIDENCE_FACTOR_CF == "confidence factor"
STATE_CF == "state"
KADEMLIA_STORE_CF == "kademlia store"
\* "finality_sync_checkpoint".as_bytes()
FINALITY_SYNC_CHECKPOINT_KEY ==
    <<102, 105, 110, 97, 108, 105, 116, 121, 95, 115, 121, 110, 99, 95,
      99, 104, 101, 99, 107, 112, 111, 105, 110, 116>>
\* block_number and app_id are 32-bit unsigned integers
BlockNumberBytes == 4

\* the engine's default column family
DefaultCF == "default"

CF_LIST_NoKademlia ==
    <<CONFIDENCE_FACTOR_CF, BLOCK_HEADER_CF, APP_DATA_CF, STATE_CF>>

CF_LIST ==
    <<CONFIDENCE_FACTOR_CF, BLOCK_HEADER_CF, APP_DATA_CF, STATE_CF, KADEMLIA_STORE_CF>>

CfNames == {CF_LIST[i] : i \in 1..Len(CF_LIST)}

(***************************************************************************)
(* Byte strings.                                                           *)
(***************************************************************************)
RECURSIVE Pow(_, _)
Pow(b, e) == IF e = 0 THEN 1 ELSE b * Pow(b, e - 1)

\* u32::to_le_bytes: little-endian, the wrong byte order for an ordered key
ToLeBytes(n) ==
    [i \in 1..BlockNumberBytes |-> (n \div Pow(256, i - 1)) % 256]

\* u32::to_be_bytes().to_vec()
ToBeBytes(n) ==
    [i \in 1..BlockNumberBytes |-> (n \div Pow(256, BlockNumberBytes - i)) % 256]

\* Display of an unsigned integer: its decimal digits as ASCII, no leading zeros
RECURSIVE Decimal(_)
Decimal(n) ==
    IF n < 10 THEN <<48 + n>> ELSE Append(Decimal(n \div 10), 48 + (n % 10))

\* format!("{app_id}{block_number}"): the encoding without the separator
FormatAppDataNoSep(app_id, block_number) ==
    Decimal(app_id) \o Decimal(block_number)

\* format!("{app_id}:{block_number}").into_bytes()
FormatAppData(app_id, block_number) ==
    Decimal(app_id) \o <<58>> \o Decimal(block_number)

\* the engine's key order: bytewise lexicographic, a proper prefix first
RECURSIVE LexLess(_, _)
LexLess(a, b) ==
    IF Len(b) = 0 THEN FALSE
    ELSE IF Len(a) = 0 THEN TRUE
    ELSE IF a[1] # b[1] THEN a[1] < b[1]
    ELSE LexLess(Tail(a), Tail(b))

(***************************************************************************)
(* Logical keys (data::Key) and the router, lines 48-69.                   *)
(***************************************************************************)
AppData(app_id, block_number) ==
    [variant |-> "AppData", app_id |-> app_id, block_number |-> block_number]
BlockHeader(block_number) ==
    [variant |-> "BlockHeader", block_number |-> block_number]
VerifiedCellCount(block_number) ==
    [variant |-> "VerifiedCellCount", block_number |-> block_number]
FinalitySyncCheckpoint == [variant |-> "FinalitySyncCheckpoint"]
KademliaRecord(key) == [variant |-> "KademliaRecord", key |-> key]

SomeCf(cf) == [tag |-> "Some", cf |-> cf]

\* faulty variant: VerifiedCellCount routed to the block header partition
KeyToRocksKeySameCf(key) ==
    CASE key.variant = "AppData" ->
           [cf |-> SomeCf(APP_DATA_CF),
            key |-> FormatAppData(key.app_id, key.block_number)]
      [] key.variant = "BlockHeader" ->
           [cf |-> SomeCf(BLOCK_HEADER_CF), key |-> ToBeBytes(key.block_number)]
      [] key.variant = "VerifiedCellCount" ->
           [cf |-> SomeCf(BLOCK_HEADER_CF), key |-> ToBeBytes(key.block_number)]
      [] key.variant = "FinalitySyncCheckpoint" ->
           [cf |-> SomeCf(STATE_CF), key |-> FINALITY_SYNC_CHECKPOINT_KEY]
      [] key.variant = "KademliaRecord" ->
           [cf |-> SomeCf(KADEMLIA_STORE_CF), key |-> key.key]

\* faulty variant: Kademlia records routed to no partition (the default column family)
KeyToRocksKeyKadDefault(key) ==
    CASE key.variant = "AppData" ->
           [cf |-> SomeCf(APP_DATA_CF),
            key |-> FormatAppData(key.app_id, key.block_number)]
      [] key.variant = "BlockHeader" ->
           [cf |-> SomeCf(BLOCK_HEADER_CF), key |-> ToBeBytes(key.block_number)]
      [] key.variant = "VerifiedCellCount" ->
           [cf |-> SomeCf(CONFIDENCE_FACTOR_CF), key |-> ToBeBytes(key.block_number)]
      [] key.variant = "FinalitySyncCheckpoint" ->
           [cf |-> SomeCf(STATE_CF), key |-> FINALITY_SYNC_CHECKPOINT_KEY]
      [] key.variant = "KademliaRecord" ->
           [cf |-> None, key |-> key.key]

\* impl From<Key> for (Option<&'static str>, Vec<u8>)
KeyToRocksKey(key) ==
    CASE key.variant = "AppData" ->
           [cf |-> SomeCf(APP_DATA_CF),
            key |-> FormatAppData(key.app_id, key.block_number)]
      [] key.variant = "BlockHeader" ->
           [cf |-> SomeCf(BLOCK_HEADER_CF), key |-> ToBeBytes(key.block_number)]
      [] key.variant = "VerifiedCellCount" ->
           [cf |-> SomeCf(CONFIDENCE_FACTOR_CF), key |-> ToBeBytes(key.block_number)]
      [] key.variant = "FinalitySyncCheckpoint" ->
           [cf |-> SomeCf(STATE_CF), key |-> FINALITY_SYNC_CHECKPOINT_KEY]
      [] key.variant = "KademliaRecord" ->
           [cf |-> SomeCf(KADEMLIA_STORE_CF), key |-> key.key]

(***************************************************************************)
(* Values and the compact binary codec (codec::Encode / codec::Decode).    *)
(* Two value types are stored: u32 (4 bytes, little-endian) and Record (a  *)
(* byte vector: compact length prefix, then the bytes).  Decode reads a    *)
(* prefix of the input and ignores what follows it.                        *)
(***************************************************************************)
U32(n) == [type |-> "u32", n |-> n]
Record(value) == [type |-> "Record", value |-> value]

Types == {"u32", "Record"}

DecodeOk(v) == [ok |-> TRUE, val |-> v]
DecodeErr == [ok |-> FALSE]

\* <T>::encode(&value)
Encode(tv) ==
    IF tv.type = "u32"
    THEN [i \in 1..4 |-> (tv.n \div Pow(256, i - 1)) % 256]
    ELSE <<4 * Len(tv.value)>> \o tv.value

\* <T>::decode(&mut &value[..]); inputs are shorter than 64 bytes, so only the
\* single-byte mode of the compact length can be followed by enough bytes
Decode(type, bytes) ==
    IF type = "u32"
    THEN IF Len(bytes) < 4 THEN DecodeErr
         ELSE DecodeOk(U32(bytes[1] + 256 * bytes[2] + 65536 * bytes[3]
                           + 16777216 * bytes[4]))
    ELSE IF Len(bytes) = 0 \/ bytes[1] % 4 # 0 THEN DecodeErr
         ELSE IF Len(bytes) - 1 < bytes[1] \div 4 THEN DecodeErr
         ELSE DecodeOk(Record(SubSeq(bytes, 2, 1 + (bytes[1] \div 4))))

(***************************************************************************)
(* The engine: an ordered byte map per namespace.                          *)
(***************************************************************************)
EmptyMap == [x \in {} |-> <<>>]

SomeVal(v) == [tag |-> "Some", val |-> v]

\* DB::put / DB::put_cf
EnginePut(d, ns, k, v) ==
    [d EXCEPT ![ns] = [x \in (DOMAIN d[ns]) \cup {k} |-> IF x = k THEN v ELSE d[ns][x]]]

\* DB::get / DB::get_cf
EngineGet(d, ns, k) ==
    IF k \in DOMAIN d[ns] THEN SomeVal(d[ns][k]) ELSE None

\* DB::delete / DB::delete_cf
EngineDelete(d, ns, k) ==
    [d EXCEPT ![ns] = [x \in (DOMAIN d[ns]) \ {k} |-> d[ns][x]]]

\* DB::cf_handle
CfHandle(c, cf) == IF cf \in c THEN SomeVal(cf) ELSE None

(***************************************************************************)
(* Results (color_eyre Result).                                            *)
(***************************************************************************)
OkUnit == [tag |-> "Ok"]
OkOpt(x) == [tag |-> "Ok", opt |-> x]
\* an error report: its messages, the outermost context first
Err(msgs) == [tag |-> "Err", msgs |-> msgs]
\* Result::wrap_err
WrapErr(r, msg) == IF r.tag = "Err" THEN Err(<<msg>> \o r.msgs) ELSE r

ErrHandle == Err(<<"Couldn't get Column Family handle from RocksDB">>)
ErrDecode == Err(<<"Failed decoding the app data.">>)

(***************************************************************************)
(* impl data::Database for RocksDB, lines 71-143.  Each operator gives the *)
(* database after the call and the value returned.                         *)
(***************************************************************************)
\* faulty variant: the write goes to the default column family
DoPutDefault(d, c, key, tv) ==
    LET rk == KeyToRocksKey(key) IN
    IF rk.cf # None /\ CfHandle(c, rk.cf.cf) = None
    THEN [db |-> d, ret |-> ErrHandle]
    ELSE [db |-> EnginePut(d, DefaultCF, rk.key, Encode(tv)), ret |-> OkUnit]

\* RocksDB::put
DoPut(d, c, key, tv) ==
    LET rk == KeyToRocksKey(key) IN
    IF rk.cf = None
    THEN [db |-> EnginePut(d, DefaultCF, rk.key, Encode(tv)), ret |-> OkUnit]
    ELSE IF CfHandle(c, rk.cf.cf) = None
         THEN [db |-> d, ret |-> ErrHandle]
         ELSE [db |-> EnginePut(d, rk.cf.cf, rk.key, Encode(tv)), ret |-> OkUnit]

\* Option::map(decode).transpose()
DecodeFound(type, found) ==
    IF found = None THEN OkOpt(None)
    ELSE LET dec == Decode(type, found.val) IN
         IF dec.ok THEN OkOpt(SomeVal(dec.val)) ELSE ErrDecode

\* faulty variant: a value that fails to decode is reported as absent
DoGetLossy(d, c, key, type) ==
    LET rk == KeyToRocksKey(key)
        ns == IF rk.cf = None THEN DefaultCF ELSE rk.cf.cf
        r == IF rk.cf # None /\ CfHandle(c, rk.cf.cf) = None
             THEN ErrHandle
             ELSE DecodeFound(type, EngineGet(d, ns, rk.key))
    IN [db |-> d, ret |-> IF r = ErrDecode THEN OkOpt(None) ELSE r]

\* RocksDB::get
DoGet(d, c, key, type) ==
    LET rk == KeyToRocksKey(key) IN
    IF rk.cf = None
    THEN [db |-> d,
          ret |-> WrapErr(DecodeFound(type, EngineGet(d, DefaultCF, rk.key)),
                          "Get operation failed on RocksDB")]
    ELSE IF CfHandle(c, rk.cf.cf) = None
         THEN [db |-> d, ret |-> ErrHandle]
         ELSE [db |-> d,
               ret |-> WrapErr(DecodeFound(type, EngineGet(d, rk.cf.cf, rk.key)),
                               "Get operation with Column Family failed on RocksDB")]

\* faulty variant: deleting a key that is not there is an error
DoDeleteStrict(d, c, key) ==
    LET rk == KeyToRocksKey(key)
        ns == IF rk.cf = None THEN DefaultCF ELSE rk.cf.cf
    IN IF rk.cf # None /\ CfHandle(c, rk.cf.cf) = None
       THEN [db |-> d, ret |-> ErrHandle]
       ELSE IF rk.key \notin DOMAIN d[ns]
            THEN [db |-> d,
                  ret |-> Err(<<"Delete operation with Column Family failed on RocksDB">>)]
            ELSE [db |-> EngineDelete(d, ns, rk.key), ret |-> OkUnit]

\* RocksDB::delete
DoDelete(d, c, key) ==
    LET rk == KeyToRocksKey(key) IN
    IF rk.cf = None
    THEN [db |-> EngineDelete(d, DefaultCF, rk.key), ret |-> OkUnit]
    ELSE IF CfHandle(c, rk.cf.cf) = None
         THEN [db |-> d, ret |-> ErrHandle]
         ELSE [db |-> EngineDelete(d, rk.cf.cf, rk.key), ret |-> OkUnit]

(***************************************************************************)
(* to_kad_record and iter(), lines 145-167.                                *)
(***************************************************************************)
\* the namespace DB::full_iterator scans: the default column family
IterNamespace == DefaultCF

RECURSIVE SortedKeys(_)
SortedKeys(S) ==
    IF S = {} THEN <<>>
    ELSE LET m == CHOOSE x \in S : \A y \in S \ {x} : LexLess(x, y)
         IN <<m>> \o SortedKeys(S \ {m})

\* db.full_iterator(IteratorMode::Start): the entries in key order
ScanEntries(snap) ==
    LET ks == SortedKeys(DOMAIN snap[IterNamespace])
    IN [i \in 1..Len(ks) |-> [key |-> ks[i], value |-> snap[IterNamespace][ks[i]]]]

ItemOk(e) == [tag |-> "Ok", key |-> e.key, value |-> e.value]
ItemErr == [tag |-> "Err"]
Panic(msg) == [panic |-> TRUE, msg |-> msg]

\* faulty variant: an entry that does not decode becomes an empty record
ToKadRecordLenient(item) ==
    IF item.tag = "Err" THEN Panic("Expected value, got error")
    ELSE LET dec == Decode("Record", item.value)
         IN [panic |-> FALSE,
             rec |-> [key |-> item.key,
                      record |-> IF dec.ok THEN dec.val ELSE Record(<<>>)]]

\* to_kad_record
ToKadRecord(item) ==
    IF item.tag = "Err" THEN Panic("Expected value, got error")
    ELSE LET dec == Decode("Record", item.value)
         IN IF ~dec.ok THEN Panic("Expected valid encoded record, got invalid")
            ELSE [panic |-> FALSE, rec |-> [key |-> item.key, record |-> dec.val]]

(***************************************************************************)
(* Inputs.                                                                 *)
(***************************************************************************)
StoreBlocks == {42, 43}
StoreRaw == {<<1>>, <<2>>}
KadKeys == {KademliaRecord(r) : r \in StoreRaw}
StoreKeys ==
    {AppData(1, 11), AppData(11, 1), FinalitySyncCheckpoint, VerifiedCellCount(42)}
    \cup {BlockHeader(b) : b \in StoreBlocks}
    \cup KadKeys
StoreValues == {U32(7), Record(<<1>>)}
RecordValues == {Record(<<>>), Record(<<1>>)}

\* what an earlier writer may have left in the default column family:
\* a record, bytes that are no record, and another record
LegacyDefault ==
    [k \in {<<1>>, <<2>>, <<3>>} |->
        IF k = <<2>> THEN Encode(U32(7)) ELSE Encode(Record(k))]
Restrict(f, S) == [x \in S |-> f[x]]
LegacyAll == {Restrict(LegacyDefault, S) : S \in SUBSET DOMAIN LegacyDefault}
LegacyTwo == {EmptyMap, LegacyDefault}

\* block numbers below 2^31 (TLC's integers are 32-bit signed)
RouterBytes == (0..MaxLowByte) \cup {255}
RouterBlocks ==
    {a * 16777216 + b * 65536 + c * 256 + d :
        a \in (0..MaxLowByte) \cup {127}, b \in {0, 255}, c \in {0, 255},
        d \in RouterBytes}
RouterRaw == UNION {[1..n -> {0, 255}] : n \in 0..MaxRawLen}
RouterKeys ==
    {AppData(a, b) : a \in 0..MaxAppNum, b \in 0..MaxAppNum}
    \cup {BlockHeader(b) : b \in RouterBlocks}
    \cup {VerifiedCellCount(b) : b \in RouterBlocks}
    \cup {FinalitySyncCheckpoint}
    \cup {KademliaRecord(r) : r \in RouterRaw}

(***************************************************************************)
(* Initial states: the database directory before open.                     *)
(***************************************************************************)
InitStore(legacy) ==
    /\ opened = FALSE
    /\ cfs \in SUBSET CfNames
    /\ \E l \in legacy :
         db = [ns \in cfs \cup {DefaultCF} |-> IF ns = DefaultCF THEN l ELSE EmptyMap]
    /\ written = [k \in StoreKeys |-> None]
    /\ last = [name |-> "none"]
    /\ result = OkUnit

InitIter ==
    /\ itPc = "none"
    /\ itSnap = [ns \in {DefaultCF} |-> EmptyMap]
    /\ itPos = 0
    /\ yielded = <<>>

InitRouterIdle ==
    /\ rk1 = FinalitySyncCheckpoint
    /\ rk2 = FinalitySyncCheckpoint
    /\ out1 = None
    /\ out2 = None

Init == InitStore(LegacyTwo) /\ InitIter /\ InitRouterIdle

InitScan == InitStore(LegacyAll) /\ InitIter /\ InitRouterIdle

InitFresh == InitStore({EmptyMap}) /\ cfs = {} /\ InitIter /\ InitRouterIdle

InitRouter ==
    /\ InitStore({EmptyMap}) /\ cfs = {}
    /\ InitIter
    /\ rk1 \in RouterKeys
    /\ rk2 \in RouterKeys
    /\ out1 = None
    /\ out2 = None

(***************************************************************************)
(* Actions.                                                                *)
(***************************************************************************)
\* RocksDB::open: create_if_missing, create_missing_column_families
Open ==
    /\ ~opened
    /\ opened' = TRUE
    /\ cfs' = cfs \cup CfNames
    /\ db' = [ns \in cfs' \cup {DefaultCF} |->
                 IF ns \in DOMAIN db THEN db[ns] ELSE EmptyMap]
    /\ last' = [name |-> "open"]
    /\ result' = OkUnit
    /\ UNCHANGED <<written, iterVars, routerVars>>

Entries(d) ==
    UNION {{<<ns, k>> : k \in DOMAIN d[ns]} : ns \in (DOMAIN d) \ {DefaultCF}}

Present(d, key) ==
    LET rk == KeyToRocksKey(key)
        ns == IF rk.cf = None THEN DefaultCF ELSE rk.cf.cf
    IN ns \in DOMAIN d /\ rk.key \in DOMAIN d[ns]

Put(K, V) ==
    /\ opened
    /\ \E key \in K, tv \in V :
         /\ Present(db, key) \/ Cardinality(Entries(db)) < MaxEntries
         /\ LET r == DoPut(db, cfs, key, tv) IN
              /\ db' = r.db
              /\ result' = r.ret
              /\ written' = IF r.ret = OkUnit
                            THEN [written EXCEPT ![key] = SomeVal(tv)]
                            ELSE written
         /\ last' = [name |-> "put", key |-> key, value |-> tv]
    /\ UNCHANGED <<opened, cfs, iterVars, routerVars>>

Get(K) ==
    /\ opened
    /\ \E key \in K, type \in Types :
         /\ LET r == DoGet(db, cfs, key, type) IN
              /\ db' = r.db
              /\ result' = r.ret
         /\ last' = [name |-> "get", key |-> key, type |-> type]
    /\ UNCHANGED <<opened, cfs, written, iterVars, routerVars>>

Delete(K) ==
    /\ opened
    /\ \E key \in K :
         /\ LET r == DoDelete(db, cfs, key) IN
              /\ db' = r.db
              /\ result' = r.ret
              /\ written' = IF r.ret = OkUnit
                            THEN [written EXCEPT ![key] = None]
                            ELSE written
         /\ last' = [name |-> "delete", key |-> key]
    /\ UNCHANGED <<opened, cfs, iterVars, routerVars>>

\* RocksDB::iter: the engine iterator pins the database as it is now
Iter ==
    /\ opened
    /\ itPc # "open"
    /\ itPc' = "open"
    /\ itSnap' = db
    /\ itPos' = 0
    /\ yielded' = <<>>
    /\ last' = [name |-> "iter"]
    /\ result' = OkUnit
    /\ UNCHANGED <<opened, cfs, db, written, routerVars>>

\* Iterator::next on the Map adapter: pull one engine item through to_kad_record
IterNext ==
    /\ itPc = "open"
    /\ \E fault \in BOOLEAN :
         LET scan == ScanEntries(itSnap) IN
         IF ~fault /\ itPos >= Len(scan)
         THEN /\ itPc' = "done"
              /\ result' = None
              /\ UNCHANGED <<itPos, yielded>>
         ELSE LET r == ToKadRecord(IF fault THEN ItemErr ELSE ItemOk(scan[itPos + 1])) IN
              IF r.panic
              THEN /\ itPc' = "panicked"
                   /\ result' = r
                   /\ UNCHANGED <<itPos, yielded>>
              ELSE /\ itPc' = "open"
                   /\ itPos' = itPos + 1
                   /\ yielded' = Append(yielded, r.rec)
                   /\ result' = SomeVal(r.rec)
    /\ last' = [name |-> "next"]
    /\ UNCHANGED <<opened, cfs, db, written, itSnap, routerVars>>

\* Key::into(): the router applied to the two inputs
Route ==
    /\ out1 = None
    /\ out1' = KeyToRocksKey(rk1)
    /\ out2' = KeyToRocksKey(rk2)
    /\ UNCHANGED <<storeVars, iterVars, rk1, rk2>>

Next ==
    \/ Open
    \/ Put(StoreKeys, StoreValues)
    \/ Get(StoreKeys)
    \/ Delete(StoreKeys)

NextScan ==
    \/ Open
    \/ Put(KadKeys, StoreValues)
    \/ Delete(KadKeys)
    \/ Iter
    \/ IterNext

NextFresh ==
    \/ Open
    \/ Put(KadKeys, RecordValues)
    \/ Iter
    \/ IterNext

Spec == Init /\ [][Next]_vars

SpecScan == InitScan /\ [][NextScan]_vars

SpecFresh == InitFresh /\ [][NextFresh]_vars

SpecRouter == InitRouter /\ [][Route]_vars

(***************************************************************************)
(* Properties.                                                             *)
(***************************************************************************)
FivePartitions ==
    {APP_DATA_CF, BLOCK_HEADER_CF, CONFIDENCE_FACTOR_CF, STATE_CF, KADEMLIA_STORE_CF}

\* C1: a get of a key returns Some(v) for the value v last put under it, whatever
\* was put or deleted under other keys since; a get of a key that was never put
\* (or was deleted) returns None.
C1_RoundTrip ==
    last.name = "get" =>
        IF written[last.key] = None
        THEN result = OkOpt(None)
        ELSE last.type = written[last.key].val.type
                => result = OkOpt(SomeVal(written[last.key].val))

\* a get returned Some(v) while another key is stored as well
C1_Witness ==
    /\ last.name = "get"
    /\ written[last.key] # None
    /\ result = OkOpt(SomeVal(written[last.key].val))
    /\ \E k \in StoreKeys \ {last.key} : written[k] # None

\* C2: once the scan is exhausted, iter() has yielded one record per entry of the
\* Kademlia partition as it was when iter() was called, with the same key bytes.
C2_IterComplete ==
    itPc = "done" =>
        /\ Len(yielded) = Cardinality(DOMAIN itSnap[KADEMLIA_STORE_CF])
        /\ {yielded[i].key : i \in 1..Len(yielded)} = DOMAIN itSnap[KADEMLIA_STORE_CF]

\* C3: a put under one variant changes no get under a key of another variant, and
\* keys of different variants never share a (partition, byte key) pair.
C3_Isolation ==
    /\ \A k1, k2 \in StoreKeys :
          k1.variant # k2.variant => KeyToRocksKey(k1) # KeyToRocksKey(k2)
    /\ [][last'.name = "put" =>
            \A k2 \in StoreKeys : k2.variant # last'.key.variant =>
                \A t \in Types :
                    DoGet(db', cfs', k2, t).ret = DoGet(db, cfs, k2, t).ret]_vars

\* BlockHeader(42) was put while VerifiedCellCount(42), same byte key, is stored
C3_Witness ==
    /\ last.name = "put"
    /\ last.key = BlockHeader(42)
    /\ result = OkUnit
    /\ Present(db, VerifiedCellCount(42))

\* C4: delete of an absent key succeeds and changes no partition; a second delete
\* of the same key succeeds and leaves the state of the first.
C4_DeleteIdempotent ==
    [][last'.name = "delete" =>
         /\ result' = OkUnit
         /\ ~Present(db, last'.key) => db' = db
         /\ (last.name = "delete" /\ last.key = last'.key) => db' = db
         /\ DoDelete(db', cfs', last'.key) = [db |-> db', ret |-> OkUnit]]_vars

\* a delete succeeded with the store still full: the key deleted was absent
C4_Witness ==
    /\ last.name = "delete"
    /\ result = OkUnit
    /\ Cardinality(Entries(db)) = MaxEntries

\* C5: every key routes to one pair of a named partition and a byte string, equal
\* keys to equal pairs, and distinct keys of one variant to distinct byte keys.
C5_RouterInjective ==
    out1 # None =>
        /\ out1.cf # None
        /\ out1.cf.cf \in FivePartitions
        /\ out1.key \in Seq(0..255)
        /\ rk1 = rk2 => out1 = out2
        /\ (rk1 # rk2 /\ rk1.variant = rk2.variant) => out1.key # out2.key

\* two AppData keys whose digits agree once the separator is dropped
C5_Witness ==
    /\ out1 # None
    /\ rk1 = AppData(1, 11)
    /\ rk2 = AppData(11, 1)

\* C6: the byte key of BlockHeader and VerifiedCellCount is the 4-byte big-endian
\* block number, so a smaller block number has a lexicographically smaller key.
C6_NumericOrder ==
    (out1 # None /\ rk1.variant \in {"BlockHeader", "VerifiedCellCount"}
                 /\ rk2.variant = rk1.variant) =>
        /\ Len(out1.key) = BlockNumberBytes
        /\ out1.key[1] * 16777216 + out1.key[2] * 65536 + out1.key[3] * 256
             + out1.key[4] = rk1.block_number
        /\ rk1.block_number < rk2.block_number => LexLess(out1.key, out2.key)

\* 255 < 65280, whose byte keys differ in the two low bytes
C6_Witness ==
    /\ out1 # None
    /\ rk1 = BlockHeader(255)
    /\ rk2 = BlockHeader(65280)

\* C7: get returns Ok(None) exactly when the byte key is absent from its
\* partition, an error when the stored bytes do not decode as the requested type,
\* and changes nothing in the store.
C7_AbsentVsCorrupt ==
    [][last'.name = "get" =>
         LET rk == KeyToRocksKey(last'.key)
             found == EngineGet(db, rk.cf.cf, rk.key)
         IN /\ (result' = OkOpt(None)) <=> (found = None)
            /\ (found # None /\ ~Decode(last'.type, found.val).ok)
                  => result'.tag = "Err"
            /\ db' = db]_vars

\* a get of a present key whose bytes are of another type failed to decode
C7_Witness ==
    /\ last.name = "get"
    /\ Present(db, last.key)
    /\ result = WrapErr(ErrDecode, "Get operation with Column Family failed on RocksDB")

\* C8: after open the five partitions exist, every key routes to one of them,
\* and no call fails to resolve its partition handle.
C8_PartitionsFixed ==
    opened =>
        /\ FivePartitions \subseteq cfs
        /\ \A k \in StoreKeys :
              /\ KeyToRocksKey(k).cf # None
              /\ KeyToRocksKey(k).cf.cf \in FivePartitions
              /\ CfHandle(cfs, KeyToRocksKey(k).cf.cf) # None
        /\ result # ErrHandle

\* a put under a Kademlia key resolved its partition and succeeded
C8_Witness ==
    /\ opened
    /\ last.name = "put"
    /\ last.key.variant = "KademliaRecord"
    /\ result = OkUnit

\* C9: the records yielded are the decoded entries of a prefix of the scan, in
\* scan order; the scan ends normally only after its last entry, and a panic on
\* a bad entry leaves the iterator at that entry.
C9_ScanHalts ==
    itPc # "none" =>
        LET scan == ScanEntries(itSnap) IN
        /\ Len(yielded) = itPos
        /\ itPos <= Len(scan)
        /\ \A i \in 1..Len(yielded) :
              /\ Decode("Record", scan[i].value).ok
              /\ yielded[i] = [key |-> scan[i].key,
                               record |-> Decode("Record", scan[i].value).val]
        /\ itPc = "done" => itPos = Len(scan)
        /\ (itPc = "panicked" /\ last.name = "next") =>
              /\ result.panic
              /\ result.msg = "Expected valid encoded record, got invalid" =>
                    /\ itPos < Len(scan)
                    /\ ~Decode("Record", scan[itPos + 1].value).ok

\* the scan halted on a corrupt entry after yielding one record, with a
\* well-formed entry behind the corrupt one left unread
C9_Witness ==
    /\ itPc = "panicked"
    /\ last.name = "next"
    /\ result.msg = "Expected valid encoded record, got invalid"
    /\ Len(yielded) = 1
    /\ Len(ScanEntries(itSnap)) = 3
    /\ Decode("Record", ScanEntries(itSnap)[3].value).ok

\* C10: the router names a partition for every key, and no call changes the
\* default column family.
C10_DefaultUntouched ==
    [][/\ \A k \in StoreKeys : KeyToRocksKey(k).cf # None
       /\ db'[DefaultCF] = db[DefaultCF]]_vars

\* puts and deletes have run on a database whose default column family holds data
C10_Witness ==
    /\ last.name = "delete"
    /\ Cardinality(Entries(db)) > 0
    /\ db[DefaultCF] = LegacyDefault

====
